---- MODULE Spec2Model ----
(***************************************************************************)
(* A model of lime_base.py (class LimeBase): the feature-selection         *)
(* strategies, the two explanation operations and the bootstrap            *)
(* sign-entropy stability filter.                                          *)
(*                                                                         *)
(* The numeric solvers the class consumes (sklearn Ridge, slime_lm         *)
(* lars_path) are external: what they return (scores, coefficient          *)
(* vectors, regularisation paths, the test result) is drawn from small     *)
(* sets when the code calls them.  Column and sample indices are 0-based   *)
(* as in the source; TLA+ sequences are 1-based, so an index array is a    *)
(* sequence of 0-based indices.                                            *)
(***************************************************************************)
EXTENDS Integers, Sequences, FiniteSets, TLC

(* ---------------------------- bounds ----------------------------------- *)
\* data.shape[1], the number of feature columns
NFeatures == 3
\* data.shape[0], the number of neighbourhood samples
NSamples == 3
\* the largest number of steps a regularisation path has after step 0
MaxSteps == 2
\* the largest distance a caller's vector holds (distances grow when scaled in place)
MaxDistance == 4

(* ------------------------ program constants ---------------------------- *)
\* 'auto' uses forward_selection when num_features <= 6
AutoThreshold == 6
\* max_ = -100000000 at the start of every forward-selection round
InitialMax == -100000000
\* while iter < 5
FilterRounds == 5
\* sign_entropy > 0.85, in thousandths of a bit
EntropyThresholdMilli == 850

Cols == 0 .. (NFeatures - 1)
Samples == 0 .. (NSamples - 1)

KnownMethods == {"none", "forward_selection", "highest_weights", "lasso_path", "auto"}
MethodVals == KnownMethods \cup {"bogus"}
NumFeaturesVals == (1 .. (NFeatures + 1)) \cup {AutoThreshold + 1}
\* values of coef * data[0], the per-feature weighted contribution
ContribVals == {-1, 0, 1, 2}
\* values of a coefficient on the regularisation path
PathVals == {0, 1}
TestResults == {"test_a", "test_b"}
NoTest == "no_test"
\* a score is a float: a number or NaN
ScoreVals == {[nan |-> FALSE, val |-> v] : v \in {2 * InitialMax, 0, 1}}
                 \cup {[nan |-> TRUE, val |-> 0]}

(* ----------------------------- helpers --------------------------------- *)
Abs(x) == IF x < 0 THEN -x ELSE x

Min(a, b) == IF a <= b THEN a ELSE b

SeqToSet(s) == {s[k] : k \in 1 .. Len(s)}

Reverse(s) == [k \in 1 .. Len(s) |-> s[Len(s) + 1 - k]]

\* s[lo:hi] of Python for 0 <= lo <= hi <= len(s)
Slice(s, lo, hi) == [k \in 1 .. (hi - lo) |-> s[lo + k]]

\* the elements of a set of integers in ascending order
AscSeq(S) ==
    [k \in 1 .. Cardinality(S) |->
        CHOOSE x \in S : Cardinality({y \in S : y < x}) = k - 1]

\* np.array(range(n))
ArangeSeq(n) == [k \in 1 .. n |-> k - 1]

\* v.nonzero()[0]: the indices of the non-zero entries, ascending
NonZero(v) == AscSeq({c \in DOMAIN v : v[c] # 0})

\* np.abs(d).argsort(): positions (0-based) in ascending order of |d|. The default
\* kind, 'quicksort', is not a stable sort: which of two equal keys comes first is
\* up to the build (short arrays are insertion-sorted and keep their order, longer
\* or vectorised sorts need not), so every ascending order is a possible result
ArgsortAbs(d) ==
    {p \in [1 .. Len(d) -> 0 .. (Len(d) - 1)] :
        /\ \A j, k \in 1 .. Len(d) : j # k => p[j] # p[k]
        /\ \A k \in 1 .. (Len(d) - 1) : Abs(d[p[k] + 1]) <= Abs(d[p[k + 1] + 1])}

\* a[p] of numpy for an index array p
Take(a, p) == [k \in 1 .. Len(p) |-> a[p[k] + 1]]

(* --------------------- highest_weights, sparse ------------------------- *)
\* the loop "for i in range(data.shape[1])" that fills the padded slots
RECURSIVE PadLoop(_, _, _, _, _, _)
PadLoop(indices, indices_set, i, pad_counter, sdata, num_to_pad) ==
    IF i >= NFeatures THEN indices
    ELSE IF i \notin indices_set
         THEN LET filled == [indices EXCEPT ![pad_counter + sdata + 1] = i]
              IN  IF pad_counter + 1 >= num_to_pad THEN filled
                  ELSE PadLoop(filled, indices_set, i + 1, pad_counter + 1,
                               sdata, num_to_pad)
         ELSE PadLoop(indices, indices_set, i + 1, pad_counter, sdata, num_to_pad)

\* indices_set = set(indices), taken after the zero padding is concatenated
PadIndicesSet(indices) == SeqToSet(indices)

\* weighted_data.data: the stored (non-zero) products, in column order
StoredData(wd) == [k \in 1 .. Len(NonZero(wd)) |-> wd[NonZero(wd)[k]]]

\* the sparse branch, for the order argsort_data that argsort returned
HighestWeightsSparse(wd, nf, argsort_data) ==
    LET stored == NonZero(wd)                     \* weighted_data.indices
        sdata == Len(StoredData(wd))
    IN  IF sdata < nf
        THEN LET nnz_indexes == Reverse(argsort_data)
                 num_to_pad == nf - sdata
                 indices == Take(stored, nnz_indexes) \o [k \in 1 .. num_to_pad |-> 0]
             IN  PadLoop(indices, PadIndicesSet(indices), 0, 0, sdata, num_to_pad)
        ELSE LET nnz_indexes == Reverse(Slice(argsort_data, sdata - nf, sdata))
             IN  Take(stored, nnz_indexes)

(* ---------------------- highest_weights, dense ------------------------- *)
\* sorted(zip(range(n), weighted_data), key=abs, reverse=True)[:num_features]:
\* a stable sort, equal keys keep their original order
HighestWeightsDense(wd, nf) ==
    LET ranked == [r \in 1 .. NFeatures |->
            CHOOSE c \in Cols :
                Cardinality({j \in Cols :
                    \/ Abs(wd[j]) > Abs(wd[c])
                    \/ (Abs(wd[j]) = Abs(wd[c]) /\ j < c)}) = r - 1]
    IN  Slice(ranked, 0, Min(nf, NFeatures))

(* ----------------------------- lasso_path ------------------------------ *)
\* coefs.T[i], step i of the path (step 0 first)
PathStep(coefsT, i) == coefsT[i + 1]

\* the paths lars_path may return: step 0 has every coefficient zero
Paths ==
    UNION {{p \in [1 .. (n + 1) -> [Cols -> PathVals]] :
                \A c \in Cols : p[1][c] = 0} : n \in 0 .. MaxSteps}

\* a scan that starts one step short of the end of the path
ScanStart_skipsLast(coefsT) == Len(coefsT) - 2

\* the first index the scan examines: range(len(coefs.T) - 1, 0, -1)
ScanStart(coefsT) == Len(coefsT) - 1

\* the step examined after step i
ScanNext(i) == i - 1

\* a scan that applies the num_features test whether or not it stratifies
ScanBreaks_ignoresStratification(nz, nf, is_testing, stratify) == Len(nz) <= nf

\* the break conditions of the loop body, for the step's non-zero set nz
ScanBreaks(nz, nf, is_testing, stratify) ==
    \/ (is_testing /\ stratify)
    \/ Len(nz) <= nf

RECURSIVE PathScan(_, _, _, _, _, _)
PathScan(coefsT, i, nonzero, nf, is_testing, stratify) ==
    IF i < 1 THEN nonzero
    ELSE LET nz == NonZero(PathStep(coefsT, i))
         IN  IF ScanBreaks(nz, nf, is_testing, stratify) THEN nz
             ELSE PathScan(coefsT, ScanNext(i), nz, nf, is_testing, stratify)

\* used_features of the lasso_path branch; nonzero starts as range(n_features)
LassoPathSelect(coefsT, nf, is_testing, stratify) ==
    PathScan(coefsT, ScanStart(coefsT), ArangeSeq(NFeatures), nf, is_testing, stratify)

(* ------------------------------ state ---------------------------------- *)
VARIABLES
    neighborhood_data,    \* the caller's sample matrix, row 0 the original instance
    neighborhood_labels,  \* the caller's label column neighborhood_labels[:, label]
    distances,            \* the caller's distance vector
    np_random,            \* the state of numpy's global generator (np.random)
    random_state,         \* self.random_state, the Explainer's own seeded generator
    pc,                   \* position of the running call
    op,                   \* the public operation that was called
    method,               \* argument method / feature_selection
    n_method,             \* the method 'auto' delegates to ("" outside 'auto')
    num_features,
    testing,
    use_stratification,
    weight_adjustments,   \* <<>> for None, else one factor per sample
    model_regressor,      \* "None" (the default Ridge) or "custom"
    sparse,               \* sp.sparse.issparse(data)
    weighted_data,        \* coef * data[0] of highest_weights
    coefs,                \* coefs.T of the lars path, step 0 first
    test_result,          \* the path solver's auxiliary result
    used_features,
    feature,
    max_,
    best,
    iter,
    flags,
    elimination,
    feats,
    prev_run,             \* history: the first completed run of the stability filter
    weights,
    fit_X,                \* the columns handed to easy_model.fit, if it was called
    result                \* what the operation returned or raised

callerVars == <<neighborhood_data, neighborhood_labels, distances>>
rngVars == <<np_random, random_state>>
argVars == <<op, method, num_features, testing, use_stratification,
             weight_adjustments, model_regressor, sparse>>
oracleVars == <<weighted_data, coefs, test_result>>
forwardVars == <<used_features, feature, max_, best>>
filterVars == <<iter, flags, elimination, feats>>
explainVars == <<weights, fit_X>>

vars == <<neighborhood_data, neighborhood_labels, distances, np_random, random_state,
          pc, op, method, n_method, num_features, testing, use_stratification,
          weight_adjustments, model_regressor, sparse, weighted_data, coefs,
          test_result, used_features, feature, max_, best, iter, flags,
          elimination, feats, prev_run, weights, fit_X, result>>

(* values an operation returns *)
Pending == [tag |-> "pending", idx |-> <<>>, test |-> NoTest]
ArrayValue(a) == [tag |-> "array", idx |-> a, test |-> NoTest]
TupleValue(a, t) == [tag |-> "tuple", idx |-> a, test |-> t]
NoneValue == [tag |-> "None", idx |-> <<>>, test |-> NoTest]
Raised(e) == [tag |-> e, idx |-> <<>>, test |-> NoTest]
NotFitted == [called |-> FALSE, cols |-> <<>>, ndim |-> 0]

ZeroRow == [c \in Cols |-> 0]

\* the locals of a call before it has run
FreshLocals ==
    /\ n_method' = ""
    /\ weighted_data' = ZeroRow
    /\ coefs' = <<ZeroRow>>
    /\ test_result' = NoTest
    /\ used_features' = <<>>
    /\ feature' = 0
    /\ max_' = InitialMax
    /\ best' = 0
    /\ iter' = 0
    /\ flags' = [c \in Cols |-> TRUE]
    /\ elimination' = <<>>
    /\ feats' = <<>>
    /\ fit_X' = NotFitted
    /\ result' = Pending

InitFrame ==
    /\ pc = "idle"
    /\ op = "none"
    /\ method = "none"
    /\ n_method = ""
    /\ num_features = 1
    /\ testing = FALSE
    /\ use_stratification = TRUE
    /\ weight_adjustments = <<>>
    /\ model_regressor = "None"
    /\ sparse = FALSE
    /\ weighted_data = ZeroRow
    /\ coefs = <<ZeroRow>>
    /\ test_result = NoTest
    /\ used_features = <<>>
    /\ feature = 0
    /\ max_ = InitialMax
    /\ best = 0
    /\ iter = 0
    /\ flags = [c \in Cols |-> TRUE]
    /\ elimination = <<>>
    /\ feats = <<>>
    /\ fit_X = NotFitted
    /\ result = Pending

Idle == pc = "idle"

\* the caller takes the returned value (or the exception); the call's frame is gone
Finish ==
    /\ pc = "returned"
    /\ pc' = "idle"
    /\ op' = "none"
    /\ method' = "none"
    /\ num_features' = 1
    /\ testing' = FALSE
    /\ use_stratification' = TRUE
    /\ weight_adjustments' = <<>>
    /\ model_regressor' = "None"
    /\ sparse' = FALSE
    /\ FreshLocals
    /\ UNCHANGED <<callerVars, rngVars, prev_run, weights>>

(* ------------------------- feature_selection --------------------------- *)
\* a direct call feature_selection(data, labels, weights, num_features, method,
\* testing, alpha, use_stratification)
Call_feature_selection ==
    /\ Idle
    /\ \E m \in MethodVals, nf \in NumFeaturesVals, t \in BOOLEAN,
          s \in BOOLEAN, sp \in BOOLEAN :
        /\ method' = m
        /\ num_features' = nf
        /\ testing' = t
        /\ use_stratification' = s
        /\ sparse' = sp
    /\ op' = "feature_selection"
    /\ pc' = "select"
    /\ FreshLocals
    /\ UNCHANGED <<callerVars, rngVars, weight_adjustments, model_regressor,
                   prev_run, weights>>

\* the method the dispatch sees: 'auto' re-enters feature_selection with n_method
Dispatched == IF n_method # "" THEN n_method ELSE method

\* feature_selection returns val to whoever called it
SelectReturn(val) ==
    /\ result' = val
    /\ pc' = IF op = "feature_selection" THEN "returned" ELSE "selected"

Select_none ==
    /\ pc = "select"
    /\ Dispatched = "none"
    /\ SelectReturn(ArrayValue(ArangeSeq(NFeatures)))
    /\ UNCHANGED <<callerVars, rngVars, argVars, n_method, oracleVars, forwardVars,
                   filterVars, prev_run, explainVars>>

Select_forward_selection ==
    /\ pc = "select"
    /\ Dispatched = "forward_selection"
    /\ used_features' = <<>>
    /\ pc' = "fs_round"
    /\ UNCHANGED <<callerVars, rngVars, argVars, n_method, oracleVars, feature, max_,
                   best, filterVars, prev_run, explainVars, result>>

\* the sparse row holds only the non-zero products; the dense one every column
HighestWeights(wd, nf, is_sparse, argsort_data) ==
    IF is_sparse THEN HighestWeightsSparse(wd, nf, argsort_data)
    ELSE HighestWeightsDense(wd, nf)

\* the orders argsort may return in the branch taken (the dense branch calls none)
ArgsortCalls(wd, is_sparse) == IF is_sparse THEN ArgsortAbs(StoredData(wd)) ELSE {<<>>}

Select_highest_weights ==
    /\ pc = "select"
    /\ Dispatched = "highest_weights"
    /\ \E wd \in [Cols -> ContribVals] :
        \E argsort_data \in ArgsortCalls(wd, sparse) :
            /\ weighted_data' = wd
            /\ SelectReturn(ArrayValue(HighestWeights(wd, num_features, sparse,
                                                      argsort_data)))
    /\ UNCHANGED <<callerVars, rngVars, argVars, n_method, coefs, test_result,
                   forwardVars, filterVars, prev_run, explainVars>>

\* generate_lars_path: (alphas, coefs) or, testing, (alphas, coefs, test_result)
LassoPathValue(coefsT, tr, nf, is_testing, stratify) ==
    IF is_testing
    THEN TupleValue(LassoPathSelect(coefsT, nf, TRUE, stratify), tr)
    ELSE ArrayValue(LassoPathSelect(coefsT, nf, FALSE, stratify))

Select_lasso_path ==
    /\ pc = "select"
    /\ Dispatched = "lasso_path"
    /\ \E p \in Paths, tr \in TestResults :
        /\ coefs' = p
        /\ test_result' = IF testing THEN tr ELSE NoTest
        /\ SelectReturn(LassoPathValue(p, tr, num_features, testing,
                                       use_stratification))
    /\ UNCHANGED <<callerVars, rngVars, argVars, n_method, weighted_data,
                   forwardVars, filterVars, prev_run, explainVars>>

AutoMethod(nf) == IF nf <= AutoThreshold THEN "forward_selection" ELSE "highest_weights"

Select_auto ==
    /\ pc = "select"
    /\ Dispatched = "auto"
    /\ n_method' = AutoMethod(num_features)
    /\ UNCHANGED <<callerVars, rngVars, argVars, oracleVars, forwardVars, filterVars,
                   prev_run, explainVars, result, pc>>

\* no branch of the if/elif chain matches: the function falls off its end
Select_unknown ==
    /\ pc = "select"
    /\ Dispatched \notin KnownMethods
    /\ SelectReturn(NoneValue)
    /\ UNCHANGED <<callerVars, rngVars, argVars, n_method, oracleVars, forwardVars,
                   filterVars, prev_run, explainVars>>

(* ------------------------- forward_selection --------------------------- *)
ForwardRounds(nf) == Min(nf, NFeatures)

\* score > max_ : a comparison with NaN is false
ScoreBeats(score, m) == (~score.nan) /\ score.val > m

Forward_begin_round ==
    /\ pc = "fs_round"
    /\ Len(used_features) < ForwardRounds(num_features)
    /\ max_' = InitialMax
    /\ best' = 0
    /\ feature' = 0
    /\ pc' = "fs_scan"
    /\ UNCHANGED <<callerVars, rngVars, argVars, n_method, oracleVars, used_features,
                   filterVars, prev_run, explainVars, result>>

Forward_skip_used ==
    /\ pc = "fs_scan"
    /\ feature < NFeatures
    /\ feature \in SeqToSet(used_features)
    /\ feature' = feature + 1
    /\ UNCHANGED <<callerVars, rngVars, argVars, n_method, oracleVars, used_features,
                   max_, best, filterVars, prev_run, explainVars, result, pc>>

\* clf.fit and clf.score on used_features + [feature]
Forward_score_candidate ==
    /\ pc = "fs_scan"
    /\ feature < NFeatures
    /\ feature \notin SeqToSet(used_features)
    /\ \E score \in ScoreVals :
        IF ScoreBeats(score, max_)
        THEN best' = feature /\ max_' = score.val
        ELSE UNCHANGED <<best, max_>>
    /\ feature' = feature + 1
    /\ UNCHANGED <<callerVars, rngVars, argVars, n_method, oracleVars, used_features,
                   filterVars, prev_run, explainVars, result, pc>>

Forward_append_best ==
    /\ pc = "fs_scan"
    /\ feature >= NFeatures
    /\ used_features' = Append(used_features, best)
    /\ pc' = "fs_round"
    /\ UNCHANGED <<callerVars, rngVars, argVars, n_method, oracleVars, feature, max_,
                   best, filterVars, prev_run, explainVars, result>>

Forward_return ==
    /\ pc = "fs_round"
    /\ Len(used_features) >= ForwardRounds(num_features)
    /\ SelectReturn(ArrayValue(used_features))
    /\ UNCHANGED <<callerVars, rngVars, argVars, n_method, oracleVars, forwardVars,
                   filterVars, prev_run, explainVars>>

SelectStep ==
    \/ Select_none
    \/ Select_forward_selection
    \/ Select_highest_weights
    \/ Select_lasso_path
    \/ Select_auto
    \/ Select_unknown
    \/ Forward_begin_round
    \/ Forward_skip_used
    \/ Forward_score_candidate
    \/ Forward_append_best
    \/ Forward_return

(* a neighbourhood: row 0 is the original instance r, and sample i >= 1 is r with
   one feature, column (i + s) % n_features, switched *)
Neighbourhood(r, s) ==
    [i \in Samples |-> [c \in Cols |->
        IF i > 0 /\ c = (i + s) % NFeatures THEN 1 - r[c] ELSE r[c]]]

DataFamily == {Neighbourhood(r, s) : r \in [Cols -> {0, 1}], s \in Cols}

\* the Explainer after __init__(kernel_fn, verbose, random_state=seed)
Constructed(seed) == seed

InitSel ==
    /\ neighborhood_data = Neighbourhood([c \in Cols |-> 1], 0)
    /\ neighborhood_labels = [i \in Samples |-> i % 2]
    /\ distances = [i \in Samples |-> IF i = 0 THEN 0 ELSE 1]
    /\ np_random = 0
    /\ random_state = Constructed(0)
    /\ prev_run = [done |-> FALSE, seed |-> 0, elimination |-> <<>>]
    /\ weights = [i \in Samples |-> 0]
    /\ InitFrame

NextSel == Call_feature_selection \/ SelectStep \/ Finish

SpecSel == InitSel /\ [][NextSel]_vars

(* --------------------- fit_ridge_on_k_neighbors ------------------------ *)
\* one step of a generator: a deterministic function of its state
NpRandomNext(s) == (5 * s + 3) % 16

\* the index a generator state yields for a draw from range(n_samples)
NpRandomIndex(s) == s % NSamples

\* k indices drawn one after another from the generator in state s
RECURSIVE NpRandomChoice(_, _)
NpRandomChoice(s, k) ==
    IF k = 0 THEN <<>>
    ELSE <<NpRandomIndex(NpRandomNext(s))>> \o NpRandomChoice(NpRandomNext(s), k - 1)

RECURSIVE NpRandomAfter(_, _)
NpRandomAfter(s, k) == IF k = 0 THEN s ELSE NpRandomAfter(NpRandomNext(s), k - 1)

\* boots_sample_idx of the i-th fit of a round that starts with np.random in state s:
\* np.random.choice(list(range(n_samples)), size=n_samples, replace=True)
BootsSampleIdx(s, i) == NpRandomChoice(NpRandomAfter(s, i * NSamples), NSamples)

RECURSIVE SumSeq(_)
SumSeq(q) == IF q = <<>> THEN 0 ELSE Head(q) + SumSeq(Tail(q))

Sign(x) == IF x > 0 THEN 1 ELSE IF x < 0 THEN -1 ELSE 0

\* np.sign of the coefficient Ridge(alpha=1).fit gives column f on the bootstrap
\* rows b: the sign of the sample covariance of the column with the labels
RidgeCoefSign(X, y, b, f) ==
    LET n == Len(b)
        xs == [k \in 1 .. n |-> X[b[k]][f]]
        ys == [k \in 1 .. n |-> y[b[k]]]
        xy == [k \in 1 .. n |-> xs[k] * ys[k]]
    IN  Sign(n * SumSeq(xy) - SumSeq(xs) * SumSeq(ys))

\* a round that fits every column, eliminated or not
ActiveFeats_ignoresFlags(fl) == AscSeq(Cols)

\* feats = [i for i in range(n_features) if flags[i]]
ActiveFeats(fl) == AscSeq({c \in Cols : fl[c]})

\* 1000 * log2(k) for k = 1..8, rounded
Log2Milli(k) == <<0, 1000, 1585, 2000, 2322, 2585, 2807, 3000>>[k]

\* len(signs) times the base-2 entropy of the empirical distribution of the signs,
\* in thousandths of a bit
SignEntropyMilli(signs) ==
    LET n == Len(signs)
        count(v) == Cardinality({k \in 1 .. n : signs[k] = v})
        unique == {v \in {-1, 0, 1} : count(v) > 0}
        term(v) == IF v \in unique THEN count(v) * (Log2Milli(n) - Log2Milli(count(v)))
                   ELSE 0
    IN  term(-1) + term(0) + term(1)

\* sign_entropy > 0.85
Unstable(signs) == SignEntropyMilli(signs) > EntropyThresholdMilli * Len(signs)

\* the features of fts one round eliminates, in the order of fts
RoundEliminated(X, y, s, fts) ==
    LET boots == [i \in 1 .. NSamples |-> BootsSampleIdx(s, i - 1)]
        signs(b, f) == [i \in 1 .. NSamples |-> RidgeCoefSign(X, y, b[i], f)]
    IN  AscSeq(UNION {{f \in SeqToSet(fts) : Unstable(signs(b, f))} : b \in {boots}})

Call_fit_ridge_on_k_neighbors ==
    /\ Idle
    /\ op' = "fit_ridge_on_k_neighbors"
    /\ pc' = "filter"
    /\ FreshLocals
    /\ UNCHANGED <<callerVars, rngVars, method, num_features, testing,
                   use_stratification, weight_adjustments, model_regressor, sparse,
                   prev_run, weights>>

\* one pass of "while iter < 5"
Filter_round ==
    /\ pc = "filter"
    /\ iter < FilterRounds
    /\ feats' = ActiveFeats(flags)
    /\ \E gone \in {RoundEliminated(neighborhood_data, neighborhood_labels,
                                     np_random, ActiveFeats(flags))} :
        /\ elimination' = elimination \o gone
        /\ flags' = [c \in Cols |-> flags[c] /\ c \notin SeqToSet(gone)]
    /\ np_random' = NpRandomAfter(np_random, NSamples * NSamples)
    /\ iter' = iter + 1
    /\ UNCHANGED <<callerVars, random_state, argVars, n_method, oracleVars,
                   forwardVars, prev_run, explainVars, result, pc>>

Filter_return ==
    /\ pc = "filter"
    /\ iter >= FilterRounds
    /\ result' = ArrayValue(elimination)
    /\ pc' = IF op = "fit_ridge_on_k_neighbors" THEN "returned" ELSE "select"
    /\ prev_run' = IF prev_run.done THEN prev_run
                   ELSE [done |-> TRUE, seed |-> random_state,
                         elimination |-> elimination]
    /\ UNCHANGED <<callerVars, rngVars, argVars, n_method, oracleVars, forwardVars,
                   filterVars, explainVars>>

FilterStep == Filter_round \/ Filter_return

Seeds == {0, 1}

\* another Explainer is constructed with random_state=seed
Construct ==
    /\ Idle
    /\ \E seed \in Seeds : random_state' = Constructed(seed)
    /\ UNCHANGED <<callerVars, np_random, pc, argVars, n_method, oracleVars,
                   forwardVars, filterVars, prev_run, explainVars, result>>

\* other code of the process draws from numpy's global generator
Global_random_use ==
    /\ Idle
    /\ np_random' = NpRandomNext(np_random)
    /\ UNCHANGED <<callerVars, random_state, pc, argVars, n_method, oracleVars,
                   forwardVars, filterVars, prev_run, explainVars, result>>

LabelFamily == {[i \in Samples |-> i % 2], [i \in Samples |-> IF i = 0 THEN 1 ELSE 0]}

InitFilter ==
    /\ neighborhood_data \in DataFamily
    /\ neighborhood_labels \in LabelFamily
    /\ distances = [i \in Samples |-> IF i = 0 THEN 0 ELSE 1]
    /\ np_random = 0
    /\ random_state = Constructed(0)
    /\ prev_run = [done |-> FALSE, seed |-> 0, elimination |-> <<>>]
    /\ weights = [i \in Samples |-> 0]
    /\ InitFrame

NextFilter ==
    \/ Call_fit_ridge_on_k_neighbors
    \/ FilterStep
    \/ Construct
    \/ Global_random_use
    \/ Finish

SpecFilter == InitFilter /\ [][NextFilter]_vars

(* ----------------------- the explanation operations -------------------- *)
\* self.kernel_fn, supplied by the caller: proximity falls as distance grows
Kernel(d) == [i \in DOMAIN d |-> IF d[i] = 0 THEN 2 ELSE IF d[i] = 1 THEN 1 ELSE 0]

\* how easy_model.fit(X, ...) ends for X of ndim dimensions with the columns cols:
\* Ridge validates X (2-d, at least one column) and raises ValueError otherwise; what
\* a caller's own regressor does with such an X is not known
FitOutcomes(regressor, cols, ndim) ==
    IF ndim = 2 /\ cols # <<>> THEN {"ok"}
    ELSE IF regressor = "None" THEN {"ValueError"}
    ELSE {"ok", "ValueError"}

Explanation(cols, t) == [tag |-> "explanation", idx |-> cols, test |-> t]

Call_explain_instance_with_data ==
    /\ Idle
    /\ \E nf \in NumFeaturesVals, m \in MethodVals, r \in {"None", "custom"},
          sp \in BOOLEAN :
        /\ num_features' = nf
        /\ method' = m
        /\ model_regressor' = r
        /\ sparse' = sp
    /\ op' = "explain_instance_with_data"
    /\ weights' = Kernel(distances)
    /\ testing' = FALSE
    /\ use_stratification' = TRUE
    /\ weight_adjustments' = <<>>
    /\ pc' = "select"
    /\ FreshLocals
    /\ UNCHANGED <<callerVars, rngVars, prev_run>>

\* lines 230-249: the fit on neighborhood_data[:, used_features] and the return
Explain_fit ==
    /\ pc = "selected"
    /\ op = "explain_instance_with_data"
    /\ used_features' = result.idx
    /\ LET ndim == IF result.tag = "None" THEN 3 ELSE 2   \* data[:, None] adds an axis
       IN  /\ fit_X' = [called |-> TRUE, cols |-> result.idx, ndim |-> ndim]
           /\ \E out \in FitOutcomes(model_regressor, result.idx, ndim) :
                result' = IF out = "ok" THEN Explanation(result.idx, NoTest)
                          ELSE Raised(out)
    /\ pc' = "returned"
    /\ UNCHANGED <<callerVars, rngVars, argVars, n_method, oracleVars, feature, max_,
                   best, filterVars, prev_run, weights>>

\* distances *= weight_adjustments, on the caller's array
ScaleInPlace(d, adj) == IF adj = <<>> THEN d ELSE [i \in DOMAIN d |-> d[i] * adj[i + 1]]

AdjustmentVals == {<<>>, [k \in 1 .. NSamples |-> 2]}

Call_testing_explain_instance_with_data ==
    /\ Idle
    /\ \E nf \in NumFeaturesVals, m \in MethodVals, r \in {"None", "custom"},
          adj \in AdjustmentVals, s \in BOOLEAN :
        /\ \A i \in Samples : ScaleInPlace(distances, adj)[i] <= MaxDistance
        /\ num_features' = nf
        /\ method' = m
        /\ model_regressor' = r
        /\ weight_adjustments' = adj
        /\ use_stratification' = s
        /\ distances' = ScaleInPlace(distances, adj)
        /\ weights' = Kernel(ScaleInPlace(distances, adj))
        /\ pc' = IF s THEN "filter" ELSE "select"
    /\ op' = "testing_explain_instance_with_data"
    /\ testing' = TRUE
    /\ sparse' = FALSE
    /\ FreshLocals
    /\ UNCHANGED <<neighborhood_data, neighborhood_labels, rngVars, prev_run>>

\* "used_features, test_result = self.feature_selection(...)": only a 2-tuple unpacks
\* into a subset; None, an index array of another length, or the two scalars an
\* array of length 2 unpacks into, raise before the fit
UnpackError(val) ==
    IF val.tag = "tuple" THEN "ok"
    ELSE IF val.tag = "None" THEN "TypeError"
    ELSE IF Len(val.idx) = 2 THEN "TypeError"
    ELSE "ValueError"

\* list(set(used_features) - set(elimination))
SetDifference(used, elim) == AscSeq(SeqToSet(used) \ SeqToSet(elim))

\* lines 320-339
Testing_fit ==
    /\ pc = "selected"
    /\ op = "testing_explain_instance_with_data"
    /\ IF UnpackError(result) # "ok"
       THEN /\ result' = Raised(UnpackError(result))
            /\ UNCHANGED <<used_features, fit_X>>
       ELSE \E final \in {SetDifference(result.idx, elimination)} :
            /\ used_features' = final
            /\ fit_X' = [called |-> TRUE, cols |-> final, ndim |-> 2]
            /\ \E out \in FitOutcomes(model_regressor, final, 2) :
                 result' = IF out = "ok" THEN Explanation(final, result.test)
                           ELSE Raised(out)
    /\ pc' = "returned"
    /\ UNCHANGED <<callerVars, rngVars, argVars, n_method, oracleVars, feature, max_,
                   best, filterVars, prev_run, weights>>

InitExplain ==
    /\ neighborhood_data = Neighbourhood([c \in Cols |-> 0], 0)
    /\ neighborhood_labels = [i \in Samples |-> i % 2]
    /\ distances = [i \in Samples |-> IF i = 0 THEN 0 ELSE 1]
    /\ np_random = 0
    /\ random_state = Constructed(0)
    /\ prev_run = [done |-> FALSE, seed |-> 0, elimination |-> <<>>]
    /\ weights = [i \in Samples |-> 0]
    /\ InitFrame

NextExplain ==
    \/ Call_explain_instance_with_data
    \/ Call_testing_explain_instance_with_data
    \/ SelectStep
    \/ FilterStep
    \/ Explain_fit
    \/ Testing_fit
    \/ Finish

SpecExplain == InitExplain /\ [][NextExplain]_vars

(* =============== properties of feature_selection (SpecSel) ============== *)
\* a direct call of feature_selection has returned
SelectionDone == pc = "returned" /\ op = "feature_selection"

NoDuplicates(a) == \A j, k \in 1 .. Len(a) : j # k => a[j] # a[k]

\* the number of non-zero coefficients of step i of the path in coefs
StepCount(i) == Len(NonZero(PathStep(coefs, i)))

LastStep == Len(coefs) - 1

\* C1: every strategy but 'none' returns at most num_features indices, and 'none'
\* returns all n_features column indices whatever num_features is.
C1_AtMostNumFeatures ==
    SelectionDone =>
        /\ method \in {"forward_selection", "highest_weights", "lasso_path", "auto"}
              => Len(result.idx) <= num_features
        /\ method = "none" => result.idx = ArangeSeq(NFeatures)

\* C2 as claimed: lasso_path (not testing) returns the non-zero set of the first
\* step, scanning from step 0 (most regularized) towards the last step, whose
\* non-zero count is <= num_features, and the last step's set if there is none
\* (stated here for the paths that have a step after step 0).
C2_FirstFromMostRegularized ==
    (SelectionDone /\ method = "lasso_path" /\ ~testing /\ LastStep >= 1) =>
        LET fits == {i \in 0 .. LastStep : StepCount(i) <= num_features}
            first == CHOOSE i \in fits : \A j \in fits : i <= j
        IN  result.idx = IF fits # {} THEN NonZero(PathStep(coefs, first))
                         ELSE NonZero(PathStep(coefs, LastStep))

\* C2 as amended: lasso_path (not testing) scans from the last (least regularized)
\* step down to step 1 and returns the non-zero set of the first step it meets whose
\* non-zero count is <= num_features, that is of the least regularized such step
\* among steps 1..last; if there is none it returns the non-zero set of step 1, and
\* if the path has step 0 only it returns every column index.
C2_LeastRegularizedWithinBudget ==
    (SelectionDone /\ method = "lasso_path" /\ ~testing) =>
        LET fits == {i \in 1 .. LastStep : StepCount(i) <= num_features}
            latest == CHOOSE i \in fits : \A j \in fits : i >= j
        IN  /\ result.tag = "array"
            /\ result.idx = IF fits # {} THEN NonZero(PathStep(coefs, latest))
                            ELSE IF LastStep >= 1 THEN NonZero(PathStep(coefs, 1))
                            ELSE ArangeSeq(NFeatures)

\* a three-step path whose last step is over budget and whose step 1 is within it
C2_Witness ==
    /\ SelectionDone /\ method = "lasso_path" /\ ~testing
    /\ LastStep = 2
    /\ StepCount(2) > num_features
    /\ StepCount(1) >= 1 /\ StepCount(1) <= num_features
    /\ result.idx = NonZero(PathStep(coefs, 1))

\* C3: forward_selection returns min(num_features, n_features) pairwise distinct
\* indices in [0, n_features), whatever scores the regressor returns.
C3_ForwardDistinct ==
    (SelectionDone /\ method = "forward_selection") =>
        /\ Len(result.idx) = Min(num_features, NFeatures)
        /\ SeqToSet(result.idx) \subseteq Cols
        /\ NoDuplicates(result.idx)

\* C4: highest_weights on a sparse row with sdata < num_features <= n_features
\* returns num_features indices: the sdata non-zero indices by descending
\* |contribution|, then the smallest other column indices in ascending order.
C4_SparsePadding ==
    LET nnz == {c \in Cols : weighted_data[c] # 0}
        sdata == Cardinality(nnz)
        pads == AscSeq(Cols \ nnz)
    IN  (SelectionDone /\ method = "highest_weights" /\ sparse
            /\ sdata < num_features /\ num_features <= NFeatures) =>
            /\ Len(result.idx) = num_features
            /\ {result.idx[k] : k \in 1 .. sdata} = nnz
            /\ \A k \in 1 .. (sdata - 1) :
                  Abs(weighted_data[result.idx[k]]) >= Abs(weighted_data[result.idx[k + 1]])
            /\ \A k \in 1 .. (num_features - sdata) : result.idx[sdata + k] = pads[k]
            /\ NoDuplicates(result.idx)

\* C10 as claimed: testing lasso_path with use_stratification stops at the first
\* step it examines, which is step 0 (maximum regularization); it returns that
\* step's non-zero set and the solver's test result unmodified (stated here for
\* the paths that have a step after step 0).
C10_StopsAtMostRegularized ==
    (SelectionDone /\ method = "lasso_path" /\ testing /\ use_stratification
        /\ LastStep >= 1) =>
        /\ result.idx = NonZero(PathStep(coefs, 0))
        /\ result.test = test_result

\* C10 as amended: testing lasso_path with use_stratification stops at the first
\* step it examines, which is the last (least regularized) step of the path; it
\* returns that step's non-zero set regardless of num_features, or every column
\* index when the path has step 0 only, and the solver's test result unmodified.
C10_StopsAtLeastRegularized ==
    (SelectionDone /\ method = "lasso_path" /\ testing /\ use_stratification) =>
        /\ result.tag = "tuple"
        /\ result.idx = IF LastStep >= 1 THEN NonZero(PathStep(coefs, LastStep))
                        ELSE ArangeSeq(NFeatures)
        /\ result.test = test_result
        /\ result.test \in TestResults

\* the last of three steps has more non-zero coefficients than num_features
C10_Witness ==
    /\ SelectionDone /\ method = "lasso_path" /\ testing /\ use_stratification
    /\ LastStep = 2
    /\ StepCount(2) > num_features
    /\ StepCount(1) <= num_features
    /\ result.idx = NonZero(PathStep(coefs, 2))
    /\ result.test = "test_b"

ActiveSet(fl) == {c \in Cols : fl[c]}

C6_EmptySubsetFailsBeforeFit ==
    (pc = "returned" /\ op = "testing_explain_instance_with_data"
        /\ method = "lasso_path" /\ used_features = <<>>)
        => (result.tag = "DegenerateSelectionError" /\ ~fit_X.called)

\* C7: a method outside the five known ones is rejected with a configuration error
\* at the call boundary: feature_selection never returns a value for it (in
\* particular not None) and explain_instance_with_data never goes on to the fit.
C7_UnknownMethodRejected ==
    (op = "explain_instance_with_data" /\ method \notin KnownMethods
        /\ pc \in {"selected", "returned"})
        => (result.tag = "ConfigurationError" /\ ~fit_X.called)

\* C8: no explanation operation changes the caller's neighborhood_data,
\* neighborhood_labels or distances.
C8_InputsNotMutated ==
    [][/\ neighborhood_data' = neighborhood_data
       /\ neighborhood_labels' = neighborhood_labels
       /\ distances' = distances]_vars

(* ============ the tie order of highest_weights (SpecSel) ================ *)
\* column a ranks before column b: larger |contribution|, and for equal
\* magnitudes the smaller column index
RanksBefore(a, b) ==
    \/ Abs(weighted_data[a]) > Abs(weighted_data[b])
    \/ (Abs(weighted_data[a]) = Abs(weighted_data[b]) /\ a < b)

\* idx holds the first take members of pool in the order of RanksBefore
TopByMagnitudeThenColumn(idx, pool, take) ==
    /\ Len(idx) = take
    /\ SeqToSet(idx) \subseteq pool
    /\ \A j, k \in 1 .. Len(idx) : j < k => RanksBefore(idx[j], idx[k])
    /\ \A c \in pool \ SeqToSet(idx) : \A k \in 1 .. Len(idx) : RanksBefore(idx[k], c)

\* C11: highest_weights returns its indices by descending |contribution| with
\* equal magnitudes in ascending column order, on a dense matrix and on a sparse
\* matrix whose row 0 has at least num_features non-zero entries (where the result
\* is the top num_features non-zero indices).
C11_TiesAscending ==
    LET nnz == {c \in Cols : weighted_data[c] # 0}
    IN  (SelectionDone /\ method = "highest_weights") =>
            /\ ~sparse =>
                 TopByMagnitudeThenColumn(result.idx, Cols, Min(num_features, NFeatures))
            /\ (sparse /\ Cardinality(nnz) >= num_features) =>
                 TopByMagnitudeThenColumn(result.idx, nnz, num_features)

====
